---- MODULE Spec2Model ----
(***************************************************************************)
(* Model of the VoiceAnalysis scoring pipeline:                            *)
(*   src/analyzers/emotional_analyzer.py  (EmotionalAnalyzer)              *)
(*   src/analyzers/health_analyzer.py     (HealthAnalyzer)                 *)
(*   src/app.py                           (the two analysis buttons)       *)
(*                                                                         *)
(* Numbers.  Python floats are modelled exactly, as rationals <<n, d>>     *)
(* with d > 0.  Feature values delivered by librosa are integers in a      *)
(* fixed unit: energy in thousandths, tempo in BPM, pitch_std in Hz.       *)
(* Raw emotion scores are integers in units of 1/6000, the least unit in   *)
(* which every term of the scoring rules is a whole number.                *)
(*                                                                         *)
(* librosa / numpy are external: what they return for a clip (and whether  *)
(* they raise) is an input of the model, drawn from bounded sets.          *)
(*                                                                         *)
(* Specifications.  Spec is the application: one analysis per run of the   *)
(* script.  SpecBreathing, SpecVoiceQuality and SpecFatigue call one       *)
(* extraction function of the HealthAnalyzer on its own.  SpecSession is a *)
(* caller that keeps its clip and calls both entry points repeatedly.      *)
(***************************************************************************)
EXTENDS Integers, Sequences, FiniteSets

VARIABLES
    op,         \* the entry point that ran last ("none" before any call)
    audio_len,  \* len(audio_data) of the clip the caller passed
    sr,         \* the sample rate the caller passed
    locals,     \* local variables of the call at the moment it ended
    calls,      \* the library calls the call made, in order
    result,     \* the value returned to the caller (NoResult if it raised)
    raised,     \* TRUE iff an exception left the entry point
    tag,        \* text_type of analyze_emotions, age_group of analyze_health
    audio_data, \* the array of a caller that keeps its clip between calls
    config,     \* the parameter tables the analyzers hold references to
    history     \* the first call of each entry point the caller made

vars == <<op, audio_len, sr, locals, calls, result, raised, tag,
          audio_data, config, history>>

\* Outcomes of a library call that are not a feature value.  Feature values
\* are never negative, so negative integers mark the other outcomes.
RAISES == 0 - 1         \* the call raised an exception
EMPTY == 0 - 2          \* piptrack: no pitch value passed the confidence filter
NONE == 0 - 3           \* the call was not made
NAN == 0 - 4            \* np.mean of an empty array
\* no analysis ran yet / nothing was returned
NoResult == [absent |-> TRUE]

(***************************************************************************)
(* Bounds of the model.                                                    *)
(***************************************************************************)
MaxLen == 7             \* longest clip, in samples
MaxSr == 3              \* highest sample rate, in samples per second
MaxEnergyStep == 1
MaxTempoStep == 1
MaxPitchStep == 1
MaxFrame == 11          \* latest frame of a detected breathing event
MaxSegmentEnergy == 2   \* largest mean RMS of a fatigue segment
MaxTrim == 1            \* most samples librosa.effects.trim removes
MaxBandEnergy == 3      \* largest mean magnitude of a frequency band

Lens == 0..MaxLen
SampleRates == 1..MaxSr

\* energy = mean RMS of |STFT|, in thousandths (>= 0)
Energies == {0, 50, 51, 100, 101, 200} \cup {1000 * k : k \in 1..MaxEnergyStep}
\* tempo from beat_track, in BPM (0 when no beat is found)
Tempos == {0, 119, 120, 121, 129, 130, 131, 150, 169, 170, 171, 200}
              \cup {200 + 20 * k : k \in 1..MaxTempoStep}
\* np.std of the confidence-filtered pitch values, in Hz; EMPTY when no
\* pitch value passes the filter
PitchStds == {0, 20, 21, 50, 51, 100} \cup {100 + 50 * k : k \in 1..MaxPitchStep}

(***************************************************************************)
(* Rationals.                                                              *)
(***************************************************************************)
Min(a, b) == IF a < b THEN a ELSE b

RLess(a, b) == a[1] * b[2] < b[1] * a[2]
REq(a, b) == a[1] * b[2] = b[1] * a[2]
RLeq(a, b) == ~RLess(b, a)
RInUnit(a) == a[2] > 0 /\ 0 <= a[1] /\ a[1] <= a[2]

Abs(x) == IF x < 0 THEN 0 - x ELSE x
RECURSIVE GCD(_, _)
GCD(a, b) == IF b = 0 THEN Abs(a) ELSE GCD(b, a % b)
\* n/d in lowest terms, d > 0
Reduce(n, d) == LET g == GCD(d, Abs(n)) IN <<n \div g, d \div g>>
RAdd(a, b) == Reduce(a[1] * b[2] + b[1] * a[2], a[2] * b[2])
RSub(a, b) == Reduce(a[1] * b[2] - b[1] * a[2], a[2] * b[2])
\* a / b for b > 0
RDiv(a, b) == Reduce(a[1] * b[2], a[2] * b[1])
\* a / k for an integer k > 0
RDivInt(a, k) == Reduce(a[1], a[2] * k)

(***************************************************************************)
(* EmotionalAnalyzer                                                       *)
(***************************************************************************)
\* key order of the emotion_scores dict (insertion order)
EMOTIONS == <<"gioia", "tristezza", "rabbia", "ansia", "neutrale">>
EmotionSet == {EMOTIONS[i] : i \in 1..Len(EMOTIONS)}

\* faulty variant of SeedScores: neutrale starts at 0.0 like the others
SeedScoresAllZero == [k \in EmotionSet |-> 0]

\* emotion_scores = {...}, in units of 1/6000: 'neutrale': 0.2
SeedScores ==
    [k \in EmotionSet |-> IF k = "neutrale" THEN 1200 ELSE 0]

\* if energy > 0.1: gioia = energy; rabbia = energy * 0.5
\* else: tristezza = 0.1 - energy
EnergyRule(scores, energy) ==
    IF energy > 100
    THEN [scores EXCEPT !["gioia"] = 6 * energy, !["rabbia"] = 3 * energy]
    ELSE [scores EXCEPT !["tristezza"] = 600 - 6 * energy]

\* if pitch_std > 0: gioia += min(pitch_std/100, 0.3); ansia += min(pitch_std/200, 0.2)
PitchRule(scores, pitch_std) ==
    IF pitch_std > 0
    THEN [scores EXCEPT !["gioia"] = @ + Min(60 * pitch_std, 1800),
                        !["ansia"] = @ + Min(30 * pitch_std, 1200)]
    ELSE scores

\* faulty variant of TempoRule: the else branch assigns tristezza instead of adding
TempoRuleAssign(scores, tempo) ==
    IF tempo > 120
    THEN [scores EXCEPT !["ansia"] = @ + Min(60 * (tempo - 120), 1800),
                        !["rabbia"] = @ + Min(40 * (tempo - 120), 1200)]
    ELSE [scores EXCEPT !["tristezza"] = Min(60 * (120 - tempo), 1800)]

\* faulty variant of TempoRule: the difference of the anxiety term is written
\* the wrong way round, min((120-tempo)/100, 0.3)
TempoRuleReversed(scores, tempo) ==
    IF tempo > 120
    THEN [scores EXCEPT !["ansia"] = @ + Min(60 * (120 - tempo), 1800),
                        !["rabbia"] = @ + Min(40 * (tempo - 120), 1200)]
    ELSE [scores EXCEPT !["tristezza"] = @ + Min(60 * (120 - tempo), 1800)]

\* if tempo > 120: ansia += min((tempo-120)/100, 0.3); rabbia += min((tempo-120)/150, 0.2)
\* else: tristezza += min((120-tempo)/100, 0.3)
TempoRule(scores, tempo) ==
    IF tempo > 120
    THEN [scores EXCEPT !["ansia"] = @ + Min(60 * (tempo - 120), 1800),
                        !["rabbia"] = @ + Min(40 * (tempo - 120), 1200)]
    ELSE [scores EXCEPT !["tristezza"] = @ + Min(60 * (120 - tempo), 1800)]

\* sum(emotion_scores.values())
RECURSIVE SumFirst(_, _)
SumFirst(scores, n) ==
    IF n = 0 THEN 0 ELSE SumFirst(scores, n - 1) + scores[EMOTIONS[n]]
SumScores(scores) == SumFirst(scores, Len(EMOTIONS))

\* faulty variant of NormalizeScores: divides by the largest score, not by the sum
NormalizeByMax(scores) ==
    LET top == CHOOSE v \in {scores[k] : k \in EmotionSet} :
                   \A k \in EmotionSet : scores[k] <= v
    IN  IF top > 0
        THEN [k \in EmotionSet |-> <<scores[k], top>>]
        ELSE [k \in EmotionSet |-> <<1, 5>>]

\* if total > 0: {k: v/total} else: {k: 0.2}
NormalizeScores(scores) ==
    LET total == SumScores(scores)
    IN  IF total > 0
        THEN [k \in EmotionSet |-> <<scores[k], total>>]
        ELSE [k \in EmotionSet |-> <<1, 5>>]

\* max(emotion_scores.items(), key=lambda x: x[1])[0]: the first maximal
\* item in iteration order
RECURSIVE MaxFirst(_, _)
MaxFirst(probs, n) ==
    IF n = 1 THEN EMOTIONS[1]
    ELSE LET best == MaxFirst(probs, n - 1)
         IN  IF RLess(probs[best], probs[EMOTIONS[n]]) THEN EMOTIONS[n] ELSE best

\* faulty variant of DominantEmotion: among equal maxima the last one wins
RECURSIVE MaxLast(_, _)
MaxLast(probs, n) ==
    IF n = 1 THEN EMOTIONS[1]
    ELSE LET best == MaxLast(probs, n - 1)
         IN  IF RLeq(probs[best], probs[EMOTIONS[n]]) THEN EMOTIONS[n] ELSE best
DominantLast(probs) == MaxLast(probs, Len(EMOTIONS))

DominantEmotion(probs) == MaxFirst(probs, Len(EMOTIONS))

\* faulty variant of _get_speech_rate: 170 itself counts as fast
SpeechRateInclusive(tempo) ==
    IF tempo >= 170 THEN "fast"
    ELSE IF tempo < 130 THEN "slow"
    ELSE "normal"

_get_speech_rate(tempo) ==
    IF tempo > 170 THEN "fast"
    ELSE IF tempo < 130 THEN "slow"
    ELSE "normal"

_get_pitch_variability(std) ==
    IF std > 50 THEN "high"
    ELSE IF std > 20 THEN "moderate"
    ELSE "monotone"

_get_energy_level(energy) ==
    IF energy > 100 THEN "high"
    ELSE IF energy > 50 THEN "medium"
    ELSE "low"

_get_default_results ==
    [dominant_emotion |-> "neutrale",
     emotion_probabilities |-> [k \in EmotionSet |-> <<1, 5>>],
     speech_rate |-> "normal",
     pitch_variability |-> "moderate",
     voice_energy |-> "medium",
     speech_pauses |-> "normal",
     rhythm_stability |-> "stable",
     speech_rate_value |-> <<1, 2>>,
     pitch_variability_value |-> <<1, 2>>,
     voice_energy_value |-> <<1, 2>>,
     speech_pauses_value |-> <<1, 2>>,
     rhythm_stability_value |-> <<1, 2>>]

\* faulty variant of SpeechRateValue: the clamp to 1.0 is missing
SpeechRateValueUnclamped(tempo) == <<tempo, 200>>

\* 'speech_rate_value': float(min(tempo/200, 1.0))
SpeechRateValue(tempo) == <<Min(tempo, 200), 200>>

\* 'pitch_variability_value': float(min(pitch_std/100, 1.0)) if pitch_std > 0 else 0.5
PitchVariabilityValue(pitch_std) ==
    IF pitch_std > 0 THEN <<Min(pitch_std, 100), 100>> ELSE <<1, 2>>

\* 'voice_energy_value': float(min(energy*10, 1.0))
VoiceEnergyValue(energy) == <<Min(energy, 100), 100>>

\* the results dict of the normal path
EmotionResults(energy, tempo, pitch_std, probs) ==
    [dominant_emotion |-> DominantEmotion(probs),
     emotion_probabilities |-> probs,
     speech_rate |-> _get_speech_rate(tempo),
     pitch_variability |-> _get_pitch_variability(pitch_std),
     voice_energy |-> _get_energy_level(energy),
     speech_pauses |-> "normal",
     rhythm_stability |-> "stable",
     speech_rate_value |-> SpeechRateValue(tempo),
     pitch_variability_value |-> PitchVariabilityValue(pitch_std),
     voice_energy_value |-> VoiceEnergyValue(energy),
     speech_pauses_value |-> <<1, 2>>,
     rhythm_stability_value |-> <<1, 2>>]

\* locals of analyze_emotions when nothing was extracted; e is the
\* exception the except clause caught ("" when none), named by its origin
NoEmotionLocals ==
    [energy |-> NONE, tempo |-> NONE, pitch_std |-> NONE, raw |-> <<>>, e |-> ""]

\* faulty variant of TooShort: a clip of exactly half a second counts as short
TooShortInclusive(n, rate) == 2 * n <= rate

\* if len(audio_data) < sr * 0.5
TooShort(n, rate) == 2 * n < rate

\* pitch_std of lines 39-46: 0.0 when pitch_values is empty
PitchStdOf(piptrack) == IF piptrack = EMPTY THEN 0 ELSE piptrack

\* The body of the try block of analyze_emotions.  lib is what numpy and
\* librosa do for this clip: each field a value, or RAISES.
EmotionTry(n, rate, lib) ==
    IF lib.asarray = RAISES
    THEN [exc |-> TRUE, value |-> NoResult,
          locals |-> [NoEmotionLocals EXCEPT !.e = "asarray"],
          calls |-> <<"asarray">>]
    ELSE IF TooShort(n, rate)
    THEN [exc |-> FALSE, value |-> _get_default_results,
          locals |-> NoEmotionLocals, calls |-> <<"asarray">>]
    ELSE IF lib.rms = RAISES
    THEN [exc |-> TRUE, value |-> NoResult,
          locals |-> [NoEmotionLocals EXCEPT !.e = "rms"],
          calls |-> <<"asarray", "rms">>]
    ELSE IF lib.beat_track = RAISES
    THEN [exc |-> TRUE, value |-> NoResult,
          locals |-> [NoEmotionLocals EXCEPT !.energy = lib.rms,
                                             !.e = "beat_track"],
          calls |-> <<"asarray", "rms", "beat_track">>]
    ELSE IF lib.piptrack = RAISES
    THEN [exc |-> TRUE, value |-> NoResult,
          locals |-> [NoEmotionLocals EXCEPT !.energy = lib.rms,
                                             !.tempo = lib.beat_track,
                                             !.e = "piptrack"],
          calls |-> <<"asarray", "rms", "beat_track", "piptrack">>]
    ELSE LET energy == lib.rms
             tempo == lib.beat_track
             pitch_std == PitchStdOf(lib.piptrack)
             s0 == SeedScores
             s1 == EnergyRule(s0, energy)
             s2 == PitchRule(s1, pitch_std)
             s3 == TempoRule(s2, tempo)
         IN  [exc |-> FALSE,
              value |-> EmotionResults(energy, tempo, pitch_std, NormalizeScores(s3)),
              locals |-> [energy |-> energy, tempo |-> tempo,
                          pitch_std |-> pitch_std, raw |-> <<s0, s1, s2, s3>>,
                          e |-> ""],
              calls |-> <<"asarray", "rms", "beat_track", "piptrack">>]

\* faulty variant of EmotionExcept: the except clause is missing
EmotionNoExcept(r) == r

\* except Exception: return self._get_default_results()
EmotionExcept(r) ==
    IF r.exc THEN [r EXCEPT !.exc = FALSE, !.value = _get_default_results] ELSE r

\* text_type is accepted and never read
analyze_emotions(n, rate, text_type, lib) == EmotionExcept(EmotionTry(n, rate, lib))

\* What the libraries can do on one call of analyze_emotions: everything
\* succeeds, or one call raises and the later ones are not reached.
EmotionLib ==
    [asarray : {0}, rms : Energies, beat_track : Tempos,
     piptrack : PitchStds \cup {EMPTY}]
    \cup [asarray : {0}, rms : Energies, beat_track : Tempos, piptrack : {RAISES}]
    \cup [asarray : {0}, rms : Energies, beat_track : {RAISES}, piptrack : {NONE}]
    \cup [asarray : {0}, rms : {RAISES}, beat_track : {NONE}, piptrack : {NONE}]
    \cup [asarray : {RAISES}, rms : {NONE}, beat_track : {NONE}, piptrack : {NONE}]

(***************************************************************************)
(* config/: the tables the constructors store (an extract of each).        *)
(***************************************************************************)
EMOTIONAL_PARAMETERS ==
    [speech_rate |-> [slow |-> <<100, 130>>, normal |-> <<130, 170>>,
                      fast |-> <<170, 200>>]]
HEALTH_PARAMETERS ==
    [breathing |-> [normal |-> <<12, 20>>, rapid |-> <<20, 30>>]]
AGE_REFERENCE ==
    [child |-> [pitch_range |-> <<200, 400>>, breathing_range |-> <<20, 30>>],
     adult |-> [pitch_range |-> <<85, 255>>, breathing_range |-> <<12, 20>>],
     elderly |-> [pitch_range |-> <<75, 245>>, breathing_range |-> <<12, 18>>]]
\* EmotionalAnalyzer.__init__ and HealthAnalyzer.__init__ keep references to
\* the module-level tables
ConfigTables ==
    [EMOTIONAL_PARAMETERS |-> EMOTIONAL_PARAMETERS,
     HEALTH_PARAMETERS |-> HEALTH_PARAMETERS,
     AGE_REFERENCE |-> AGE_REFERENCE]

(***************************************************************************)
(* HealthAnalyzer                                                          *)
(*                                                                         *)
(* A value of the form a + b * sqrt(q) (a std divided by a mean) is kept   *)
(* exactly, as the record [a, b, q] of three rationals.                    *)
(***************************************************************************)
SurdOf(r) == [a |-> r, b |-> <<0, 1>>, q |-> <<0, 1>>]
\* 1 - sqrt(q)
OneMinusRoot(q) == [a |-> <<1, 1>>, b |-> <<0 - 1, 1>>, q |-> q]

Max(a, b) == IF a < b THEN b ELSE a
RECURSIVE SeqMax(_)
SeqMax(xs) == IF Len(xs) = 1 THEN xs[1] ELSE Max(xs[1], SeqMax(Tail(xs)))
RECURSIVE SeqSum(_)
SeqSum(xs) == IF xs = <<>> THEN 0 ELSE xs[1] + SeqSum(Tail(xs))

\* np.diff
Diff(xs) == [i \in 1..(Len(xs) - 1) |-> xs[i + 1] - xs[i]]

\* the call raised: nothing is returned
Raised(loc, made) == [exc |-> TRUE, value |-> NoResult, locals |-> loc, calls |-> made]
Returned(v, loc, made) == [exc |-> FALSE, value |-> v, locals |-> loc, calls |-> made]

\* 1 - (np.std(x) / np.mean(x)) if np.mean(x) > 0 else 0, for the intervals
\* x = d / scale of the integer steps d: std/mean = sqrt(k*sum(d^2) - sum(d)^2) / sum(d)
Regularity(d) ==
    LET k == Len(d)
        total == SeqSum(d)
        squares == SeqSum([i \in 1..k |-> d[i] * d[i]])
    IN  IF total > 0
        THEN OneMinusRoot(Reduce(k * squares - total * total, total * total))
        ELSE SurdOf(<<0, 1>>)

\* faulty variant of BreathsPerMinute: breaths per second, the factor 60 is missing
BreathsPerSecond(events, n, rate) ==
    IF n > 0 THEN <<events * rate, n>> ELSE <<0, 1>>

\* (len(breath_events) * 60) / duration if duration > 0 else 0, duration = n / sr
BreathsPerMinute(events, n, rate) ==
    IF n > 0 THEN <<events * 60 * rate, n>> ELSE <<0, 1>>

\* lines 59-64
BreathingRegularity(breath_events) ==
    IF Len(breath_events) > 1
    THEN Regularity(Diff(breath_events))
    ELSE SurdOf(<<0, 1>>)

\* faulty variant of _analyze_breathing: the rate is reported relative to the
\* lower end of the age group's breathing_range
BreathingByAge(n, rate, age_group, lib) ==
    IF lib.fail = "onset_strength"
    THEN Raised([breath_events |-> <<>>], <<"onset_strength">>)
    ELSE IF lib.fail = "onset_detect"
    THEN Raised([breath_events |-> <<>>], <<"onset_strength", "onset_detect">>)
    ELSE Returned([rate |-> RDivInt(BreathsPerMinute(Len(lib.breath_events), n, rate),
                                    AGE_REFERENCE[age_group].breathing_range[1]),
                   regularity |-> BreathingRegularity(lib.breath_events)],
                  [breath_events |-> lib.breath_events],
                  <<"onset_strength", "onset_detect">>)

\* n = len(audio_data) of the preprocessed clip; age_group is not read
_analyze_breathing(n, rate, age_group, lib) ==
    IF lib.fail = "onset_strength"
    THEN Raised([breath_events |-> <<>>], <<"onset_strength">>)
    ELSE IF lib.fail = "onset_detect"
    THEN Raised([breath_events |-> <<>>], <<"onset_strength", "onset_detect">>)
    ELSE Returned([rate |-> BreathsPerMinute(Len(lib.breath_events), n, rate),
                   regularity |-> BreathingRegularity(lib.breath_events)],
                  [breath_events |-> lib.breath_events],
                  <<"onset_strength", "onset_detect">>)

\* jitter, lines 78-81; np.std(np.diff(..)) and np.mean(..) are lib.diff_std
\* and lib.pitch_mean
Jitter(lib) ==
    IF lib.pitch_count > 1
    THEN IF lib.pitch_mean > 0 THEN Reduce(lib.diff_std, lib.pitch_mean) ELSE <<0, 1>>
    ELSE <<0, 1>>

\* shimmer = np.std(rms) / np.mean(rms) if np.mean(rms) > 0 else 0
Shimmer(lib) ==
    IF lib.rms_mean > 0 THEN Reduce(lib.rms_std, lib.rms_mean) ELSE <<0, 1>>

\* hnr = np.mean(harmonic_energy) / np.mean(noise_energy) if noise > 0 else 0
HNR(lib) ==
    IF lib.noise_energy > 0 THEN Reduce(lib.harmonic_energy, lib.noise_energy)
    ELSE <<0, 1>>

\* faulty variant of Hoarseness: 1 - hnr whatever hnr is
HoarsenessUnclamped(hnr) == RSub(<<1, 1>>, hnr)

\* float(1 - hnr if hnr < 1 else 0)
Hoarseness(hnr) == IF RLess(hnr, <<1, 1>>) THEN RSub(<<1, 1>>, hnr) ELSE <<0, 1>>

\* faulty variant of Strain: the sum is not halved
StrainSum(jitter, shimmer) == RAdd(jitter, shimmer)

\* strain = (jitter + shimmer) / 2
Strain(jitter, shimmer) == RDivInt(RAdd(jitter, shimmer), 2)

_analyze_voice_quality(n, rate, lib) ==
    IF lib.fail = "piptrack"
    THEN Raised(NoResult, <<"piptrack">>)
    ELSE IF lib.fail = "rms"
    THEN Raised(NoResult, <<"piptrack", "rms">>)
    ELSE IF lib.fail = "stft"
    THEN Raised(NoResult, <<"piptrack", "rms", "stft">>)
    ELSE LET jitter == Jitter(lib)
             shimmer == Shimmer(lib)
             hnr == HNR(lib)
             strain == Strain(jitter, shimmer)
             quality_score ==
                 RSub(<<1, 1>>, RDivInt(RAdd(jitter, RAdd(shimmer, strain)), 3))
         IN  Returned([quality_score |-> quality_score,
                       hoarseness |-> Hoarseness(hnr),
                       strain |-> strain],
                      [jitter |-> jitter, shimmer |-> shimmer, hnr |-> hnr,
                       pitch_count |-> lib.pitch_count, pitch_mean |-> lib.pitch_mean,
                       harmonic_energy |-> lib.harmonic_energy,
                       noise_energy |-> lib.noise_energy],
                      <<"piptrack", "rms", "stft">>)

\* faulty variant of SegmentLengths: a last segment of any length is kept
SegmentLengthsUnfiltered(n, rate) ==
    LET samples_per_segment == rate * 3
        count == (n + samples_per_segment - 1) \div samples_per_segment
    IN  [j \in 1..count |->
            Min(samples_per_segment, n - (j - 1) * samples_per_segment)]

\* the lengths of audio_data[i:i + samples_per_segment] for
\* i in range(0, len(audio_data), samples_per_segment), kept if >= sr
SegmentLengths(n, rate) ==
    LET samples_per_segment == rate * 3
        count == (n + samples_per_segment - 1) \div samples_per_segment
        all == [j \in 1..count |->
                   Min(samples_per_segment, n - (j - 1) * samples_per_segment)]
        Eligible(l) == l >= rate
    IN  SelectSeq(all, Eligible)

\* faulty variant of NormalizeTrend: divides by the first segment's energy, not the max
NormalizeByFirst(energy_trend) ==
    [i \in 1..Len(energy_trend) |->
        IF energy_trend[1] > 0 THEN <<energy_trend[i], energy_trend[1]>> ELSE <<0, 1>>]

\* energy_trend = [e/max_energy if max_energy > 0 else 0 for e in energy_trend]
NormalizeTrend(energy_trend) ==
    LET max_energy == SeqMax(energy_trend)
    IN  [i \in 1..Len(energy_trend) |->
            IF max_energy > 0 THEN <<energy_trend[i], max_energy>> ELSE <<0, 1>>]

\* faulty variant of FatigueScore: a rise of the energy counts as no fatigue
FatigueScoreClamped(energy_trend) ==
    IF energy_trend # <<>> /\ energy_trend[1][1] > 0
          /\ RLeq(energy_trend[Len(energy_trend)], energy_trend[1])
    THEN RSub(<<1, 1>>, RDiv(energy_trend[Len(energy_trend)], energy_trend[1]))
    ELSE <<0, 1>>

\* 1 - (energy_trend[-1] / energy_trend[0]) if energy_trend and energy_trend[0] > 0 else 0
FatigueScore(energy_trend) ==
    IF energy_trend # <<>> /\ energy_trend[1][1] > 0
    THEN RSub(<<1, 1>>, RDiv(energy_trend[Len(energy_trend)], energy_trend[1]))
    ELSE <<0, 1>>

\* lib.segment_rms[k] is float(np.mean(rms)) of the k-th kept segment
_analyze_fatigue(n, rate, lib) ==
    LET segments == SegmentLengths(n, rate)
    IN  IF segments = <<>>
        THEN Returned([fatigue_score |-> <<0, 1>>, timeline |-> << <<0, 1>> >>],
                      [segments |-> segments, energy_trend |-> <<>>], <<>>)
        ELSE IF lib.fail = "rms_segment"
        THEN Raised([segments |-> segments, energy_trend |-> <<>>], <<"rms_segment">>)
        ELSE LET raw == SubSeq(lib.segment_rms, 1, Len(segments))
                 energy_trend == NormalizeTrend(raw)
             IN  Returned([fatigue_score |-> FatigueScore(energy_trend),
                           timeline |-> energy_trend],
                          [segments |-> segments, energy_trend |-> raw],
                          <<"rms_segment">>)

\* (rhythm_regularity + (1 - abs(tempo - 120)/120)) / 2
Stability(rhythm_regularity, tempo) ==
    [a |-> RDivInt(RAdd(rhythm_regularity.a, <<120 - Abs(tempo - 120), 120>>), 2),
     b |-> RDivInt(rhythm_regularity.b, 2),
     q |-> rhythm_regularity.q]

_analyze_speech_rhythm(n, rate, lib) ==
    IF lib.fail = "onset_strength_rhythm"
    THEN Raised(NoResult, <<"onset_strength">>)
    ELSE IF lib.fail = "beat_track"
    THEN Raised(NoResult, <<"onset_strength", "beat_track">>)
    ELSE LET rhythm_regularity ==
                 IF Len(lib.beats) > 1 THEN Regularity(Diff(lib.beats))
                 ELSE SurdOf(<<0, 1>>)
         IN  Returned([fluency |-> rhythm_regularity,
                       stability |-> Stability(rhythm_regularity, lib.tempo)],
                      [tempo |-> lib.tempo, beats |-> lib.beats],
                      <<"onset_strength", "beat_track">>)

\* librosa.util.normalize takes np.max of the magnitudes, which raises on an
\* empty array, and raises on input that is not finite; librosa.effects.trim
\* returns the clip without its leading and trailing silence
_preprocess_audio(n, rate, lib) ==
    IF n = 0 \/ lib.fail = "normalize"
    THEN Raised(NoResult, <<"normalize">>)
    ELSE IF lib.fail = "trim"
    THEN Raised(NoResult, <<"normalize", "trim">>)
    ELSE Returned(Max(1, n - lib.trimmed), NoResult, <<"normalize", "trim">>)

\* analyze_health has no try block: an exception of any step leaves it
analyze_health(n, rate, age_group, lib) ==
    LET pre == _preprocess_audio(n, rate, lib)
    IN  IF pre.exc THEN Raised([audio_data |-> NONE], pre.calls)
        ELSE
    LET m == pre.value
        loc == [audio_data |-> m]
        breathing == _analyze_breathing(m, rate, age_group, lib)
        c1 == pre.calls \o breathing.calls
    IN  IF breathing.exc THEN Raised(loc, c1)
        ELSE
    LET voice_quality == _analyze_voice_quality(m, rate, lib)
        c2 == c1 \o voice_quality.calls
    IN  IF voice_quality.exc THEN Raised(loc, c2)
        ELSE
    LET fatigue == _analyze_fatigue(m, rate, lib)
        c3 == c2 \o fatigue.calls
    IN  IF fatigue.exc THEN Raised(loc, c3)
        ELSE
    LET speech_rhythm == _analyze_speech_rhythm(m, rate, lib)
        c4 == c3 \o speech_rhythm.calls
    IN  IF speech_rhythm.exc THEN Raised(loc, c4)
        ELSE Returned([breathing |-> breathing.value,
                       voice_quality |-> voice_quality.value,
                       fatigue |-> fatigue.value,
                       speech_rhythm |-> speech_rhythm.value],
                      loc, c4)

(***************************************************************************)
(* What librosa can return to the HealthAnalyzer.                          *)
(***************************************************************************)
RECURSIVE SortedSeq(_)
SortedSeq(S) ==
    IF S = {} THEN <<>>
    ELSE LET least == CHOOSE x \in S : \A y \in S : x <= y
         IN  <<least>> \o SortedSeq(S \ {least})

\* onset_detect(..., wait=sr//2): strictly increasing frames, each more than
\* sr//2 frames after the one before
EventSeqs(frames, rate) ==
    {ev \in {SortedSeq(S) : S \in SUBSET frames} :
        \A i \in 1..(Len(ev) - 1) : ev[i + 1] - ev[i] > rate \div 2}

BreathFrames == {0, 1, 2, MaxFrame}
SegmentEnergies == 0..MaxSegmentEnergy

\* an empty clip has no onset
BreathingLib(n, rate) ==
    [fail : {""},
     breath_events : IF n = 0 THEN {<<>>} ELSE EventSeqs(BreathFrames, rate)]
    \cup [fail : {"onset_strength", "onset_detect"}, breath_events : {<<>>}]

FatigueLib(n, rate) ==
    [fail : {""}, segment_rms : [1..Len(SegmentLengths(n, rate)) -> SegmentEnergies]]
    \cup [fail : {"rms_segment"}, segment_rms : {<<>>}]

\* three clips as the voice-quality calls see them: silent, steady, rough
SilentVoice ==
    [pitch_count |-> 0, pitch_mean |-> 0, diff_std |-> 0, rms_mean |-> 0,
     rms_std |-> 0, harmonic_energy |-> 0, noise_energy |-> 0]
SteadyVoice ==
    [pitch_count |-> 4, pitch_mean |-> 200, diff_std |-> 10, rms_mean |-> 100,
     rms_std |-> 20, harmonic_energy |-> 6, noise_energy |-> 2]
RoughVoice ==
    [pitch_count |-> 4, pitch_mean |-> 100, diff_std |-> 150, rms_mean |-> 100,
     rms_std |-> 90, harmonic_energy |-> 1, noise_energy |-> 2]
VoiceLib == {SilentVoice, SteadyVoice, RoughVoice}

\* the confidence-filtered pitch values: how many, their mean, and the std
\* of their differences (0 with fewer than two differences or a mean of 0)
PitchTracks ==
    {[pitch_count |-> c, pitch_mean |-> m, diff_std |-> d] :
        c \in 0..3, m \in {0, 100}, d \in {0, 50, 100, 150, 300}}
ValidPitchTracks ==
    {t \in PitchTracks :
        /\ t.pitch_count = 0 => t.pitch_mean = 0
        /\ (t.pitch_count < 3 \/ t.pitch_mean = 0) => t.diff_std = 0}
\* mean and std of the RMS envelope (a zero mean is a zero envelope)
Envelopes ==
    {e \in [rms_mean : {0, 100}, rms_std : {0, 50, 100, 250}] :
        e.rms_mean = 0 => e.rms_std = 0}
\* mean magnitude of the bins up to 2 kHz and of those above; there is no
\* bin above 2 kHz when sr <= 4000, and np.mean of none is nan
Spectra ==
    [harmonic_energy : 0..MaxBandEnergy, noise_energy : (0..MaxBandEnergy) \cup {NAN}]

VoiceQualityLib ==
    {[fail |-> "", pitch_count |-> t.pitch_count, pitch_mean |-> t.pitch_mean,
      diff_std |-> t.diff_std, rms_mean |-> e.rms_mean, rms_std |-> e.rms_std,
      harmonic_energy |-> b.harmonic_energy, noise_energy |-> b.noise_energy] :
        t \in ValidPitchTracks, e \in Envelopes, b \in Spectra}
    \cup
    {[fail |-> f, pitch_count |-> 0, pitch_mean |-> 0, diff_std |-> 0,
      rms_mean |-> 0, rms_std |-> 0, harmonic_energy |-> 0, noise_energy |-> 0] :
        f \in {"piptrack", "rms", "stft"}}

RhythmLib ==
    {[tempo |-> 0, beats |-> <<>>], [tempo |-> 120, beats |-> <<0, 2, 4>>],
     [tempo |-> 240, beats |-> <<0, 1, 5>>]}

HealthFailures ==
    {"normalize", "trim", "onset_strength", "onset_detect", "piptrack", "rms",
     "stft", "rms_segment", "onset_strength_rhythm", "beat_track"}

\* everything succeeds, or one call raises (then what the calls before it
\* returned is fixed: it does not reach the caller)
HealthLib(n, rate) ==
    {[fail |-> "", trimmed |-> t, breath_events |-> ev, segment_rms |-> seg,
      pitch_count |-> v.pitch_count, pitch_mean |-> v.pitch_mean,
      diff_std |-> v.diff_std, rms_mean |-> v.rms_mean, rms_std |-> v.rms_std,
      harmonic_energy |-> v.harmonic_energy, noise_energy |-> v.noise_energy,
      tempo |-> r.tempo, beats |-> r.beats] :
        t \in 0..MaxTrim, ev \in {<<>>, <<0, 2>>}, v \in VoiceLib, r \in RhythmLib,
        seg \in [1..3 -> {0, 1}]}
    \cup
    {[fail |-> f, trimmed |-> 0, breath_events |-> <<>>, segment_rms |-> <<1, 1, 1>>,
      pitch_count |-> 0, pitch_mean |-> 0, diff_std |-> 0, rms_mean |-> 0,
      rms_std |-> 0, harmonic_energy |-> 0, noise_energy |-> 0,
      tempo |-> 0, beats |-> <<>>] : f \in HealthFailures}

\* selected_text or None
TextTypes == {"", "gioia"}
AgeGroups == {"child", "adult", "elderly"}

(***************************************************************************)
(* app.py: Streamlit runs main() from the top on every interaction.  A run *)
(* in which a button is pressed builds a fresh analyzer and makes one      *)
(* analysis call on the recorded clip; the next interaction starts over.   *)
(***************************************************************************)
Init ==
    /\ op = "none"
    /\ audio_len = 0
    /\ sr = 1
    /\ locals = NoResult
    /\ calls = <<>>
    /\ result = NoResult
    /\ raised = FALSE
    /\ tag = ""
    /\ audio_data = [len |-> 0, peak |-> 0, profile |-> "silent"]
    /\ config = ConfigTables
    /\ history = <<>>

\* what a call leaves behind
Finish(name, n, rate, t, r) ==
    /\ op' = name
    /\ audio_len' = n
    /\ sr' = rate
    /\ tag' = t
    /\ locals' = r.locals
    /\ calls' = r.calls
    /\ result' = r.value
    /\ raised' = r.exc

\* "Analisi Emotiva": emotional_analyzer.analyze_emotions(audio_data, sr, text_type)
AnalisiEmotiva ==
    /\ op = "none"
    /\ \E n \in Lens, rate \in SampleRates, t \in TextTypes, lib \in EmotionLib :
        Finish("analyze_emotions", n, rate, t, analyze_emotions(n, rate, t, lib))
    /\ UNCHANGED <<audio_data, config, history>>

\* "Analisi Salute": health_analyzer.analyze_health(audio_data, sr, age_group);
\* the handler's except clause reports what analyze_health raises
AnalisiSalute ==
    /\ op = "none"
    /\ \E n \in Lens, rate \in SampleRates, t \in AgeGroups :
        \E lib \in HealthLib(n, rate) :
            Finish("analyze_health", n, rate, t, analyze_health(n, rate, t, lib))
    /\ UNCHANGED <<audio_data, config, history>>

\* the next interaction reruns the script: nothing of the last run is kept
Rerun ==
    /\ op # "none"
    /\ op' = "none"
    /\ audio_len' = 0
    /\ sr' = 1
    /\ locals' = NoResult
    /\ calls' = <<>>
    /\ result' = NoResult
    /\ raised' = FALSE
    /\ tag' = ""
    /\ UNCHANGED <<audio_data, config, history>>

Next == AnalisiEmotiva \/ AnalisiSalute \/ Rerun

Spec == Init /\ [][Next]_vars

(***************************************************************************)
(* The extraction functions of the HealthAnalyzer on their own: each is    *)
(* called on one preprocessed clip with what librosa returns for it.       *)
(***************************************************************************)
CallBreathing ==
    /\ op = "none"
    /\ \E n \in Lens, rate \in SampleRates :
        \E lib \in BreathingLib(n, rate) :
            Finish("_analyze_breathing", n, rate, "adult",
                   _analyze_breathing(n, rate, "adult", lib))
    /\ UNCHANGED <<audio_data, config, history>>

NextBreathing == CallBreathing \/ Rerun
SpecBreathing == Init /\ [][NextBreathing]_vars

CallFatigue ==
    /\ op = "none"
    /\ \E n \in Lens, rate \in SampleRates :
        \E lib \in FatigueLib(n, rate) :
            Finish("_analyze_fatigue", n, rate, "", _analyze_fatigue(n, rate, lib))
    /\ UNCHANGED <<audio_data, config, history>>

NextFatigue == CallFatigue \/ Rerun
SpecFatigue == Init /\ [][NextFatigue]_vars

CallVoiceQuality ==
    /\ op = "none"
    /\ \E n \in {1, MaxLen}, rate \in SampleRates, lib \in VoiceQualityLib :
        Finish("_analyze_voice_quality", n, rate, "",
               _analyze_voice_quality(n, rate, lib))
    /\ UNCHANGED <<audio_data, config, history>>

NextVoiceQuality == CallVoiceQuality \/ Rerun
SpecVoiceQuality == Init /\ [][NextVoiceQuality]_vars

(***************************************************************************)
(* A caller that keeps one clip and the two analyzers, and calls the entry *)
(* points on that clip any number of times, in any order.  The clip is an  *)
(* array of len samples with peak amplitude peak (in thousandths); what    *)
(* the libraries compute is a function of the samples they are handed.     *)
(***************************************************************************)
Peaks == {0, 500, 1000}
Clips ==
    {[len |-> n, peak |-> p, profile |-> f] :
        n \in Lens, p \in Peaks, f \in {"silent", "steady", "rough"}}
SessionClips == {c \in Clips : (c.profile = "silent") = (c.peak = 0)}

\* librosa.util.normalize returns a new array scaled to peak 1
NormalizedCopy(buf) == [buf EXCEPT !.peak = IF @ > 0 THEN 1000 ELSE 0]

\* faulty variant of HealthWrites: the clip is normalized in place
HealthWritesInPlace(buf) == NormalizedCopy(buf)

\* the caller's array after analyze_health: _preprocess_audio rebinds its
\* local name to the arrays normalize and trim return, and no later
\* statement stores into an array
HealthWrites(buf) == buf

\* the caller's array after analyze_emotions: np.asarray(.., dtype=float32)
\* is the array itself or a copy, and no statement stores into it
EmotionWrites(buf) == buf

\* analyze_emotions works on the samples as they are: the mean RMS grows
\* with the amplitude (here a fifth of the peak)
SessionEmotionLib(buf) ==
    [asarray |-> 0,
     rms |-> buf.peak \div 5,
     beat_track |-> CASE buf.profile = "silent" -> 0
                      [] buf.profile = "steady" -> 120
                      [] buf.profile = "rough" -> 240,
     piptrack |-> CASE buf.profile = "silent" -> EMPTY
                    [] buf.profile = "steady" -> 20
                    [] buf.profile = "rough" -> 150]

\* analyze_health works on the normalized clip
SessionHealthLib(buf) ==
    LET v == CASE buf.profile = "silent" -> SilentVoice
               [] buf.profile = "steady" -> SteadyVoice
               [] buf.profile = "rough" -> RoughVoice
        level == NormalizedCopy(buf).peak \div 1000
    IN  [fail |-> "", trimmed |-> 0,
         breath_events |-> IF buf.profile = "silent" THEN <<>> ELSE <<0, 2>>,
         segment_rms |-> <<2 * level, level, level>>,
         pitch_count |-> v.pitch_count, pitch_mean |-> v.pitch_mean,
         diff_std |-> v.diff_std, rms_mean |-> v.rms_mean, rms_std |-> v.rms_std,
         harmonic_energy |-> v.harmonic_energy, noise_energy |-> v.noise_energy,
         tempo |-> IF buf.profile = "silent" THEN 0 ELSE 120,
         beats |-> IF buf.profile = "silent" THEN <<>> ELSE <<0, 2, 4>>]

InitSession ==
    /\ op = "none"
    /\ audio_data \in SessionClips
    /\ audio_len = audio_data.len
    /\ sr \in SampleRates
    /\ locals = NoResult
    /\ calls = <<>>
    /\ result = NoResult
    /\ raised = FALSE
    /\ tag = ""
    /\ config = ConfigTables
    /\ history = <<>>

\* the caller notes the outcome of the first call of each entry point
Remember(name, t, r) ==
    IF \E i \in 1..Len(history) : history[i].op = name
    THEN history
    ELSE Append(history, [op |-> name, tag |-> t, value |-> r.value, raised |-> r.exc])

SessionEmotions ==
    \E t \in TextTypes :
        LET r == analyze_emotions(audio_data.len, sr, t, SessionEmotionLib(audio_data))
        IN  /\ Finish("analyze_emotions", audio_data.len, sr, t, r)
            /\ audio_data' = EmotionWrites(audio_data)
            /\ config' = config
            /\ history' = Remember("analyze_emotions", t, r)

SessionHealth ==
    \E t \in AgeGroups :
        LET r == analyze_health(audio_data.len, sr, t, SessionHealthLib(audio_data))
        IN  /\ Finish("analyze_health", audio_data.len, sr, t, r)
            /\ audio_data' = HealthWrites(audio_data)
            /\ config' = config
            /\ history' = Remember("analyze_health", t, r)

NextSession == SessionEmotions \/ SessionHealth
SpecSession == InitSession /\ [][NextSession]_vars

(***************************************************************************)
(* Properties of analyze_emotions, checked under Spec.                     *)
(***************************************************************************)
EmotionRan == op = "analyze_emotions"
\* the call went through the scoring rules (no default result)
Scored == EmotionRan /\ locals.raw # <<>>

FiveKeys == {"gioia", "tristezza", "rabbia", "ansia", "neutrale"}
Prob(k) == result.emotion_probabilities[k]
ProbSum ==
    RAdd(Prob("gioia"), RAdd(Prob("tristezza"),
        RAdd(Prob("rabbia"), RAdd(Prob("ansia"), Prob("neutrale")))))

\* the default EmotionResult, written out
FixedDefault ==
    [dominant_emotion |-> "neutrale",
     emotion_probabilities |->
         [k \in FiveKeys |-> <<1, 5>>],
     speech_rate |-> "normal", pitch_variability |-> "moderate",
     voice_energy |-> "medium", speech_pauses |-> "normal",
     rhythm_stability |-> "stable",
     speech_rate_value |-> <<1, 2>>, pitch_variability_value |-> <<1, 2>>,
     voice_energy_value |-> <<1, 2>>, speech_pauses_value |-> <<1, 2>>,
     rhythm_stability_value |-> <<1, 2>>]

ExtractionCalls == {"rms", "beat_track", "piptrack"}
Made == {calls[i] : i \in 1..Len(calls)}

\* C1: on every return path of analyze_emotions, emotion_probabilities has
\* exactly the five fixed keys, every value lies in [0,1], and the values
\* sum to 1 or are all exactly 0.2.
C1_ProbabilitiesWellFormed ==
    EmotionRan =>
        /\ DOMAIN result.emotion_probabilities = FiveKeys
        /\ \A k \in FiveKeys : RInUnit(Prob(k))
        /\ \/ REq(ProbSum, <<1, 1>>)
           \/ \A k \in FiveKeys : Prob(k) = <<1, 5>>

C1_Witness ==
    /\ Scored
    /\ ~REq(Prob("neutrale"), <<1, 5>>)
    /\ REq(ProbSum, <<1, 1>>)

\* C2: a clip with fewer than 0.5 x sr samples gets the fixed default result
\* and no feature extraction (energy, tempo, pitch) runs; a clip of exactly
\* 0.5 x sr samples is not treated as short: its features are extracted.
C2_ShortClipDefault ==
    EmotionRan =>
        /\ 2 * audio_len < sr =>
              /\ result = FixedDefault
              /\ Made \cap ExtractionCalls = {}
        /\ (2 * audio_len = sr /\ locals.e # "asarray") => "rms" \in Made
        /\ (2 * audio_len = sr /\ locals.e = "") => Scored

C2_Witness ==
    /\ EmotionRan
    /\ audio_len > 0
    /\ 2 * audio_len < sr
    /\ result = FixedDefault
    /\ calls = <<"asarray">>

\* C3: a failure in any step of analyze_emotions is caught inside it: the
\* call raises nothing and returns exactly the default result of a short
\* clip, never a partially filled one.
C3_FailureGivesDefault ==
    EmotionRan =>
        /\ ~raised
        /\ DOMAIN result = DOMAIN FixedDefault
        /\ locals.e # "" => result = FixedDefault

C3_Witness ==
    /\ EmotionRan
    /\ locals.e = "piptrack"
    /\ locals.energy >= 0
    /\ locals.tempo >= 0
    /\ result = FixedDefault
    /\ ~raised

\* the reference scores of C5, in units of 1/6000
RefGioia(energy, pitch_std) ==
    (IF energy > 100 THEN 6 * energy ELSE 0)
        + (IF pitch_std > 0 THEN Min(60 * pitch_std, 1800) ELSE 0)
RefTristezza(energy, tempo) ==
    (IF energy > 100 THEN 0 ELSE 600 - 6 * energy)
        + (IF tempo > 120 THEN 0 ELSE Min(60 * (120 - tempo), 1800))
RefRabbia(energy, tempo) ==
    (IF energy > 100 THEN 3 * energy ELSE 0)
        + (IF tempo > 120 THEN Min(40 * (tempo - 120), 1200) ELSE 0)
RefAnsia(pitch_std, tempo) ==
    (IF pitch_std > 0 THEN Min(30 * pitch_std, 1200) ELSE 0)
        + (IF tempo > 120 THEN Min(60 * (tempo - 120), 1800) ELSE 0)

\* C5: on the normal path the raw score map is the reference (neutral 0.2,
\* then the energy, pitch and tempo rules, each adding to what is there),
\* and no rule lowers any emotion's score.
C5_RawScoresAreReference ==
    Scored =>
        /\ Len(locals.raw) = 4
        /\ locals.raw[4] =
              [k \in FiveKeys |->
                  CASE k = "gioia" -> RefGioia(locals.energy, locals.pitch_std)
                    [] k = "tristezza" -> RefTristezza(locals.energy, locals.tempo)
                    [] k = "rabbia" -> RefRabbia(locals.energy, locals.tempo)
                    [] k = "ansia" -> RefAnsia(locals.pitch_std, locals.tempo)
                    [] k = "neutrale" -> 1200]
        /\ locals.raw[1] = [k \in FiveKeys |-> IF k = "neutrale" THEN 1200 ELSE 0]
        /\ \A i \in 1..3 : \A k \in FiveKeys : locals.raw[i][k] <= locals.raw[i + 1][k]

C5_Witness ==
    /\ Scored
    /\ locals.energy < 100
    /\ locals.pitch_std > 0
    /\ locals.tempo < 120
    /\ locals.raw[2]["tristezza"] > 0
    /\ locals.raw[4]["tristezza"] > locals.raw[2]["tristezza"]

IsMaximal(k) == \A j \in FiveKeys : RLeq(Prob(j), Prob(k))
Position(k) == CHOOSE i \in 1..5 :
    <<"gioia", "tristezza", "rabbia", "ansia", "neutrale">>[i] = k
FirstMaximal(k) ==
    /\ IsMaximal(k)
    /\ \A j \in FiveKeys : IsMaximal(j) => Position(k) <= Position(j)

\* C6 as stated: dominant_emotion is always a key of maximal probability
\* and, among equal maxima, the first in the order joy, sadness, anger,
\* anxiety, neutral.
C6_Original ==
    EmotionRan =>
        /\ result.dominant_emotion \in FiveKeys
        /\ FirstMaximal(result.dominant_emotion)

\* C6 amended: dominant_emotion is always a key of maximal probability; on
\* the scoring path it is the first of the equal maxima in the fixed order,
\* while the default result (short clip, caught failure) names neutral
\* although all five probabilities are equal.
C6_DominantEmotion ==
    EmotionRan =>
        /\ result.dominant_emotion \in FiveKeys
        /\ IsMaximal(result.dominant_emotion)
        /\ Scored => FirstMaximal(result.dominant_emotion)
        /\ ~Scored => result.dominant_emotion = "neutrale"

C6_Witness ==
    /\ Scored
    /\ REq(Prob("gioia"), Prob("neutrale"))
    /\ IsMaximal("neutrale")
    /\ result.dominant_emotion = "gioia"

\* C7: the buckets are fixed functions of the features: speech_rate fast
\* above 170, slow below 130, else normal; pitch_variability high above 50,
\* moderate above 20, else monotone; voice_energy high above 0.1, medium
\* above 0.05, else low; speech_pauses is always normal and rhythm_stability
\* always stable; no other label is produced.
C7_Buckets ==
    EmotionRan =>
        /\ result.speech_rate \in {"fast", "slow", "normal"}
        /\ result.pitch_variability \in {"high", "moderate", "monotone"}
        /\ result.voice_energy \in {"high", "medium", "low"}
        /\ result.speech_pauses = "normal"
        /\ result.rhythm_stability = "stable"
        /\ Scored =>
              /\ result.speech_rate =
                    IF locals.tempo > 170 THEN "fast"
                    ELSE IF locals.tempo < 130 THEN "slow" ELSE "normal"
              /\ result.pitch_variability =
                    IF locals.pitch_std > 50 THEN "high"
                    ELSE IF locals.pitch_std > 20 THEN "moderate" ELSE "monotone"
              /\ result.voice_energy =
                    IF locals.energy > 100 THEN "high"
                    ELSE IF locals.energy > 50 THEN "medium" ELSE "low"

C7_Witness ==
    /\ Scored
    /\ locals.tempo = 170
    /\ result.speech_rate = "normal"
    /\ locals.pitch_std = 50
    /\ result.pitch_variability = "moderate"
    /\ locals.energy = 100
    /\ result.voice_energy = "medium"

ValueFields(r) ==
    {r.speech_rate_value, r.pitch_variability_value, r.voice_energy_value,
     r.speech_pauses_value, r.rhythm_stability_value}

\* C8: the five _value fields of every EmotionResult lie in [0,1]; on the
\* scoring path speech_rate_value = min(tempo/200, 1), pitch_variability_value
\* = min(pitch_std/100, 1) if pitch_std > 0 else 0.5, voice_energy_value =
\* min(energy x 10, 1), and the other two are 0.5.
C8_ValuesInUnitInterval ==
    EmotionRan =>
        /\ \A v \in ValueFields(result) : RInUnit(v)
        /\ REq(result.speech_pauses_value, <<1, 2>>)
        /\ REq(result.rhythm_stability_value, <<1, 2>>)
        /\ Scored =>
              /\ REq(result.speech_rate_value,
                     IF locals.tempo < 200 THEN <<locals.tempo, 200>> ELSE <<1, 1>>)
              /\ REq(result.pitch_variability_value,
                     IF locals.pitch_std <= 0 THEN <<1, 2>>
                     ELSE IF locals.pitch_std < 100 THEN <<locals.pitch_std, 100>>
                     ELSE <<1, 1>>)
              /\ REq(result.voice_energy_value,
                     IF 10 * locals.energy < 1000 THEN <<10 * locals.energy, 1000>>
                     ELSE <<1, 1>>)

C8_Witness ==
    /\ Scored
    /\ locals.tempo > 200
    /\ REq(result.speech_rate_value, <<1, 1>>)
    /\ locals.pitch_std > 100
    /\ locals.energy > 100

(***************************************************************************)
(* Properties of analyze_health, checked under Spec.                       *)
(***************************************************************************)
HealthRan == op = "analyze_health"

\* C4: for every 1-D float clip, empty, silent and very short ones included,
\* analyze_health ends in a fully populated HealthResult with its four
\* sub-records; a failure of preprocessing or of an extraction step is
\* replaced by a neutral value and never raised to the caller.
C4_HealthAlwaysReturns ==
    HealthRan =>
        /\ ~raised
        /\ DOMAIN result = {"breathing", "voice_quality", "fatigue", "speech_rhythm"}

(***************************************************************************)
(* Properties of _analyze_fatigue, checked under SpecFatigue.              *)
(***************************************************************************)
FatigueRan == op = "_analyze_fatigue" /\ ~raised

\* full 3-second segments, plus the rest of the clip if it lasts a second
EligibleCount ==
    audio_len \div (3 * sr) + (IF audio_len % (3 * sr) >= sr THEN 1 ELSE 0)

TopEnergy ==
    CHOOSE e \in {locals.energy_trend[i] : i \in 1..Len(locals.energy_trend)} :
        \A i \in 1..Len(locals.energy_trend) : locals.energy_trend[i] <= e

\* C9: every value of fatigue.timeline lies in [0,1]; with at least one
\* eligible segment the timeline holds one value per eligible segment, the
\* segment's energy divided by the largest segment energy (all zero if that
\* is zero); with no eligible segment the timeline is [0.0] and
\* fatigue_score is 0.0; the timeline is empty only if no segment is eligible.
C9_FatigueTimeline ==
    FatigueRan =>
        /\ \A i \in 1..Len(result.timeline) : RInUnit(result.timeline[i])
        /\ EligibleCount >= 1 =>
              /\ Len(result.timeline) = EligibleCount
              /\ Len(locals.energy_trend) = EligibleCount
              /\ \A i \in 1..EligibleCount :
                    IF TopEnergy = 0
                    THEN REq(result.timeline[i], <<0, 1>>)
                    ELSE REq(result.timeline[i], <<locals.energy_trend[i], TopEnergy>>)
        /\ EligibleCount = 0 =>
              /\ result.timeline = << <<0, 1>> >>
              /\ REq(result.fatigue_score, <<0, 1>>)
        /\ Len(result.timeline) = 0 => EligibleCount = 0

C9_Witness ==
    /\ FatigueRan
    /\ EligibleCount = 3
    /\ locals.energy_trend[1] = 1
    /\ locals.energy_trend[2] = 2
    /\ REq(result.timeline[1], <<1, 2>>)
    /\ REq(result.timeline[2], <<1, 1>>)
    /\ REq(result.timeline[3], <<0, 1>>)

(***************************************************************************)
(* Properties of _analyze_breathing, checked under SpecBreathing.          *)
(***************************************************************************)
BreathingRan == op = "_analyze_breathing" /\ ~raised
EventCount == Len(locals.breath_events)

RSquare(a) == <<a[1] * a[1], a[2] * a[2]>>
\* a + b * sqrt(q) = 0
SurdIsZero(x) ==
    IF x.b[1] = 0 THEN x.a[1] = 0
    ELSE /\ x.a[1] * x.b[1] <= 0
         /\ REq(RSquare(x.a), <<RSquare(x.b)[1] * x.q[1], RSquare(x.b)[2] * x.q[2]>>)

\* C10: breathing.rate is 0 when no breathing event was detected and when
\* the clip lasts 0 seconds; breathing.regularity is 0 with fewer than two
\* events or a mean interval of 0; otherwise rate = events x 60 / duration.
C10_BreathingDefaults ==
    BreathingRan =>
        /\ result.rate[2] > 0
        /\ EventCount = 0 => REq(result.rate, <<0, 1>>)
        /\ audio_len = 0 => REq(result.rate, <<0, 1>>)
        /\ EventCount < 2 => SurdIsZero(result.regularity)
        /\ (EventCount >= 2
              /\ locals.breath_events[EventCount] = locals.breath_events[1])
              => SurdIsZero(result.regularity)
        /\ (EventCount > 0 /\ audio_len > 0) =>
              REq(result.rate, <<EventCount * 60 * sr, audio_len>>)

C10_Witness ==
    /\ BreathingRan
    /\ EventCount = 1
    /\ audio_len = 3
    /\ sr = 3
    /\ REq(result.rate, <<60, 1>>)
    /\ SurdIsZero(result.regularity)

RMul(a, b) == <<a[1] * b[1], a[2] * b[2]>>
\* 0 <= a + b * sqrt(q), for b <= 0
SurdNonNegative(x) ==
    /\ x.a[1] >= 0
    /\ RLeq(RMul(RSquare(x.b), x.q), RSquare(x.a))
\* a + b * sqrt(q) <= 1, for b <= 0
SurdAtMostOne(x) ==
    \/ RLeq(x.a, <<1, 1>>)
    \/ RLeq(RSquare(RSub(x.a, <<1, 1>>)), RMul(RSquare(x.b), x.q))

\* C11: breathing.regularity lies in [0,1] for every strictly increasing
\* sequence of breathing events, also when the intervals' standard deviation
\* exceeds their mean.
C11_RegularityInUnitInterval ==
    BreathingRan =>
        /\ SurdNonNegative(result.regularity)
        /\ SurdAtMostOne(result.regularity)

(***************************************************************************)
(* Further properties of analyze_emotions, checked under Spec.             *)
(***************************************************************************)
\* what rule 3 adds to anxiety at tempo t, the scores after rules 1 and 2
\* being those of the call
TempoAnxiety(t) == TempoRule(locals.raw[3], t)["ansia"] - locals.raw[3]["ansia"]

\* C12: with energy and pitch_std fixed, for tempi t1 <= t2 with t1 > 120 the
\* anxiety contribution of rule 3 at t2 is at least that at t1, and from
\* tempo 150 on it is 0.3 whatever the tempo.
C12_TempoAnxietyMonotone ==
    Scored =>
        /\ locals.raw[4]["ansia"] - locals.raw[3]["ansia"] = TempoAnxiety(locals.tempo)
        /\ locals.tempo > 120 =>
              \A t2 \in Tempos :
                  t2 >= locals.tempo => TempoAnxiety(t2) >= TempoAnxiety(locals.tempo)
        /\ locals.tempo >= 150 =>
              locals.raw[4]["ansia"] - locals.raw[3]["ansia"] = 1800

C12_Witness ==
    /\ Scored
    /\ locals.tempo = 130
    /\ locals.raw[4]["ansia"] - locals.raw[3]["ansia"] = 600
    /\ TempoAnxiety(131) = 660
    /\ TempoAnxiety(200) = 1800

(***************************************************************************)
(* Properties of repeated calls on one clip, checked under SpecSession.    *)
(***************************************************************************)
\* C13: two calls of analyze_health that differ only in age_group return
\* identical results, and two calls of analyze_emotions that differ only in
\* text_type return identical results.
C13_TagsNotRead ==
    \A i \in 1..Len(history) :
        (history[i].op = op /\ history[i].tag # tag) =>
            /\ result = history[i].value
            /\ raised = history[i].raised

C13_Witness ==
    /\ op = "analyze_health"
    /\ tag = "child"
    /\ ~raised
    /\ result.breathing.rate[1] > 0
    /\ \E i \in 1..Len(history) :
          /\ history[i].op = "analyze_health"
          /\ history[i].tag = "adult"
          /\ history[i].value = result
    /\ \E i \in 1..Len(history) :
          /\ history[i].op = "analyze_emotions"
          /\ history[i].tag = "gioia"

(***************************************************************************)
(* The order of the library calls of both entry points, checked under Spec.*)
(***************************************************************************)
\* the calls that measure a feature of the clip
FeatureCalls ==
    {"rms", "beat_track", "piptrack", "onset_strength", "onset_detect", "stft",
     "rms_segment"}
HealthOrder ==
    <<"normalize", "trim", "onset_strength", "onset_detect", "piptrack", "rms",
      "stft", "rms_segment", "onset_strength", "beat_track">>
\* the same for a clip without a fatigue segment
HealthOrderNoSegment == SubSeq(HealthOrder, 1, 7) \o SubSeq(HealthOrder, 9, 10)
IsPrefix(xs, ys) == Len(xs) <= Len(ys) /\ xs = SubSeq(ys, 1, Len(xs))

\* C14: in both engines the preprocessor (normalize, then trim) runs before
\* any feature extraction; analyze_health runs preprocess, breathing, voice
\* quality, fatigue and speech rhythm in that order on the preprocessed clip.
C14_PreprocessBeforeExtraction ==
    /\ (EmotionRan \/ HealthRan) =>
          \A i \in 1..Len(calls) :
              calls[i] \in FeatureCalls =>
                  \E j, k \in 1..(i - 1) :
                      j < k /\ calls[j] = "normalize" /\ calls[k] = "trim"
    /\ HealthRan =>
          \/ IsPrefix(calls, HealthOrder)
          \/ IsPrefix(calls, HealthOrderNoSegment)

(***************************************************************************)
(* What a call leaves behind, checked under SpecSession.                   *)
(***************************************************************************)
\* C15: a call of analyze_emotions or analyze_health, successful or not,
\* leaves the caller's sample buffer and the configuration tables as they
\* were and keeps nothing of the call: a later call with the same clip,
\* sample rate and tag returns what the first one returned, whatever calls
\* ran in between.
C15_CallsLeaveNoTrace ==
    [][/\ audio_data' = audio_data
       /\ config' = config
       /\ \A i \in 1..Len(history) :
             (history[i].op = op' /\ history[i].tag = tag') =>
                 /\ result' = history[i].value
                 /\ raised' = history[i].raised]_vars

C15_Witness ==
    /\ Scored
    /\ Len(history) = 2
    /\ history[1].op = "analyze_emotions"
    /\ history[1].tag = tag
    /\ history[1].value = result
    /\ history[2].op = "analyze_health"
    /\ ~history[2].raised
    /\ audio_data.peak = 500
    /\ locals.energy = 100
    /\ config = ConfigTables

(***************************************************************************)
(* Further properties of _analyze_fatigue, checked under SpecFatigue.      *)
(***************************************************************************)
FatigueCalled == op = "_analyze_fatigue"

\* C16: the number of eligible fatigue segments of a clip of n samples is
\* floor(n / (3 sr)), plus one if n mod (3 sr) >= sr; the segments are the
\* consecutive 3-second slices of the clip in clip order (the last one may
\* be shorter), and timeline entry k belongs to the k-th of them.
C16_SegmentCount ==
    FatigueCalled =>
        /\ Len(locals.segments) =
              audio_len \div (3 * sr) + (IF audio_len % (3 * sr) >= sr THEN 1 ELSE 0)
        /\ \A k \in 1..Len(locals.segments) :
              /\ locals.segments[k] >= sr
              /\ locals.segments[k] =
                    (IF k * 3 * sr <= audio_len THEN k * 3 * sr ELSE audio_len)
                        - (k - 1) * 3 * sr
        /\ (~raised /\ locals.segments # <<>>) =>
              /\ Len(result.timeline) = Len(locals.segments)
              /\ \A k \in 1..Len(locals.segments) :
                    REq(result.timeline[k],
                        IF TopEnergy = 0 THEN <<0, 1>>
                        ELSE <<locals.energy_trend[k], TopEnergy>>)

C16_Witness ==
    /\ FatigueCalled
    /\ ~raised
    /\ sr = 1
    /\ audio_len = 2 * 3 * sr + 1
    /\ locals.segments = <<3, 3, 1>>
    /\ Len(result.timeline) = 3
    /\ locals.energy_trend = <<1, 2, 0>>
    /\ REq(result.timeline[1], <<1, 2>>)
    /\ REq(result.timeline[3], <<0, 1>>)

FirstEnergy == locals.energy_trend[1]
LastEnergy == locals.energy_trend[Len(locals.energy_trend)]
\* the parts of C17 on the value of fatigue_score
FatigueScoreValue ==
    /\ locals.energy_trend = <<>> => REq(result.fatigue_score, <<0, 1>>)
    /\ (locals.energy_trend # <<>> /\ result.timeline[1][1] = 0) =>
          REq(result.fatigue_score, <<0, 1>>)
    /\ (locals.energy_trend # <<>> /\ result.timeline[1][1] > 0) =>
          /\ REq(result.fatigue_score, <<FirstEnergy - LastEnergy, FirstEnergy>>)
          /\ REq(<<LastEnergy, FirstEnergy>>,
                 <<result.timeline[Len(result.timeline)][1] * result.timeline[1][2],
                   result.timeline[Len(result.timeline)][2] * result.timeline[1][1]>>)
    /\ Len(locals.segments) = 1 => REq(result.fatigue_score, <<0, 1>>)
    /\ RLeq(result.fatigue_score, <<1, 1>>)

\* C17 as stated: fatigue_score = 1 - last/first timeline value when the
\* first is > 0, and 0 with no eligible segment or a first value of 0; one
\* segment gives 0; the score never exceeds 1; and it is negative whenever
\* the last segment's energy exceeds the first's.
C17_Original ==
    FatigueRan =>
        /\ FatigueScoreValue
        /\ (locals.energy_trend # <<>> /\ LastEnergy > FirstEnergy) =>
              RLess(result.fatigue_score, <<0, 1>>)

\* C17 amended: as above, but the score is negative whenever the last
\* segment's energy exceeds the first's and the first is > 0; when the first
\* segment's energy is 0 the score is 0 however large the last one is.
C17_FatigueScore ==
    FatigueRan =>
        /\ FatigueScoreValue
        /\ (locals.energy_trend # <<>> /\ FirstEnergy > 0 /\ LastEnergy > FirstEnergy) =>
              RLess(result.fatigue_score, <<0, 1>>)
        /\ (locals.energy_trend # <<>> /\ FirstEnergy = 0) =>
              REq(result.fatigue_score, <<0, 1>>)

C17_Witness ==
    /\ FatigueRan
    /\ locals.energy_trend = <<1, 0, 2>>
    /\ REq(result.fatigue_score, <<0 - 1, 1>>)

(***************************************************************************)
(* Properties of _analyze_voice_quality, checked under SpecVoiceQuality.   *)
(***************************************************************************)
VoiceQualityRan == op = "_analyze_voice_quality" /\ ~raised
JitterPlusShimmer == RAdd(locals.jitter, locals.shimmer)

\* C18: strain = (jitter + shimmer) / 2 and quality_score = 1 - mean(jitter,
\* shimmer, strain), which is 1 - strain; quality_score is at most 1 and is
\* below 0 exactly when jitter + shimmer > 2; jitter is 0 when fewer than
\* two pitch values pass the confidence filter or their mean is 0.
C18_QualityScore ==
    VoiceQualityRan =>
        /\ REq(result.strain, <<JitterPlusShimmer[1], 2 * JitterPlusShimmer[2]>>)
        /\ REq(result.quality_score,
               RSub(<<1, 1>>,
                    RDivInt(RAdd(JitterPlusShimmer, result.strain), 3)))
        /\ REq(result.quality_score, RSub(<<1, 1>>, result.strain))
        /\ RLeq(result.quality_score, <<1, 1>>)
        /\ RLess(result.quality_score, <<0, 1>>) = RLess(<<2, 1>>, JitterPlusShimmer)
        /\ (locals.pitch_count < 2 \/ locals.pitch_mean = 0) =>
              REq(locals.jitter, <<0, 1>>)

C18_Witness ==
    /\ VoiceQualityRan
    /\ REq(locals.jitter, <<3, 1>>)
    /\ REq(locals.shimmer, <<1, 2>>)
    /\ REq(result.strain, <<7, 4>>)
    /\ REq(result.quality_score, <<0 - 3, 4>>)

\* C19: HNR is the mean harmonic-band energy divided by the mean noise-band
\* energy, and 0 when the noise-band energy is 0; hoarseness is 1 - HNR when
\* HNR < 1 and 0 otherwise; hoarseness lies in [0,1], and a clip with zero
\* noise-band energy (a silent clip included) has hoarseness exactly 1.
C19_Hoarseness ==
    VoiceQualityRan =>
        /\ locals.noise_energy > 0 =>
              REq(locals.hnr, <<locals.harmonic_energy, locals.noise_energy>>)
        /\ locals.noise_energy <= 0 => REq(locals.hnr, <<0, 1>>)
        /\ RLess(locals.hnr, <<1, 1>>) =>
              REq(result.hoarseness,
                  <<locals.hnr[2] - locals.hnr[1], locals.hnr[2]>>)
        /\ ~RLess(locals.hnr, <<1, 1>>) => REq(result.hoarseness, <<0, 1>>)
        /\ RInUnit(result.hoarseness)
        /\ locals.noise_energy = 0 => REq(result.hoarseness, <<1, 1>>)

C19_Witness ==
    /\ VoiceQualityRan
    /\ locals.noise_energy = 0
    /\ locals.harmonic_energy = 0
    /\ locals.pitch_count = 0
    /\ REq(locals.shimmer, <<0, 1>>)
    /\ REq(result.hoarseness, <<1, 1>>)

(***************************************************************************)
(* The normalization of analyze_emotions, checked under Spec.              *)
(***************************************************************************)
RawTotal ==
    locals.raw[4]["gioia"] + locals.raw[4]["tristezza"] + locals.raw[4]["rabbia"]
        + locals.raw[4]["ansia"] + locals.raw[4]["neutrale"]
UniformFallback == [k \in FiveKeys |-> <<1, 5>>]

\* C20: on the normal path of analyze_emotions the raw scores sum to at
\* least 0.2, so the probabilities are the scores divided by their sum and
\* the uniform-0.2 fallback of the normalization is never taken; a result
\* whose probabilities are the fallback's is the short-clip or exception
\* default; the neutral probability of a scored clip is strictly positive.
C20_FallbackNeverTaken ==
    EmotionRan =>
        /\ Scored =>
              /\ RawTotal >= 1200
              /\ \A k \in FiveKeys :
                    /\ locals.raw[4][k] >= 0
                    /\ Prob(k) = <<locals.raw[4][k], RawTotal>>
              /\ RLess(<<0, 1>>, Prob("neutrale"))
        /\ result.emotion_probabilities = UniformFallback =>
              /\ ~Scored
              /\ result = FixedDefault
              /\ (2 * audio_len < sr \/ locals.e # "")

C20_Witness ==
    /\ Scored
    /\ locals.energy = 100
    /\ locals.tempo = 120
    /\ locals.pitch_std = 0
    /\ RawTotal = 1200
    /\ REq(Prob("neutrale"), <<1, 1>>)

====
